---------------------------- MODULE Spec2Model ----------------------------
(***************************************************************************)
(* State-machine model of the RDP session monitor (session_monitor/main.py *)
(* with state_store.py, geo.py, wevtutil_security.py): the per-tick        *)
(* reconciliation of the session table with the security-log snapshots,    *)
(* the rendering of the panel document and its fingerprint, and the        *)
(* publisher that keeps the panel message in the chat channel.             *)
(*                                                                         *)
(* Times are whole seconds since the start of the modelled day.  An        *)
(* Optional[T] of the program is a sequence of length 0 (None) or 1.       *)
(* Markdown back-quotes of the rendered lines are written as '.            *)
(***************************************************************************)
EXTENDS Integers, Sequences, FiniteSets, TLC

\* ------------------------------------------------------------------ bounds
\* The clock runs from 0 to MaxSteps * ClockStep seconds.
MaxSteps == 3
\* Message ids the chat platform hands out: 1..MaxMsgs.
MaxMsgs == 3

\* ----------------------------------------------------------- python values
None == <<>>
Some(v) == <<v>>
IsNone(o) == o = <<>>
Val(o) == o[1]
Range(s) == {s[i] : i \in 1..Len(s)}
Max(a, b) == IF a >= b THEN a ELSE b
Pad2(n) == IF n < 10 THEN "0" \o ToString(n) ELSE ToString(n)

\* ------------------------------------------------------------ configuration
\* MONITOR_USERS split at its commas: "Alice, bob ," (main.py:133).
MONITOR_USERS == <<"Alice", " bob ", "">>
\* str.strip().lower() on the parts that occur in the configuration.
StripLower(part) ==
    CASE part = "Alice" -> "alice"
      [] part = " bob " -> "bob"
      [] part = " " -> ""
      [] OTHER -> part

RECURSIVE _parse_users(_)
_parse_users(raw) ==
    IF raw = <<>> THEN <<>>
    ELSE LET part == StripLower(Head(raw))
         IN  (IF part /= "" THEN <<part>> ELSE <<>>) \o _parse_users(Tail(raw))

monitor_users == _parse_users(MONITOR_USERS)
Users == Range(monitor_users)

\* USER_ALIASES=alice=Alice A. (main.py:134) and _display_name.
user_aliases == [u \in {"alice"} |-> "Alice A."]
_display_name(username) ==
    IF username \in DOMAIN user_aliases THEN user_aliases[username] ELSE username

\* IDLE_THRESHOLD_MINUTES default; POLL_SECONDS default; SECURITY_POLL_SECONDS=30.
idle_threshold_minutes == 10
poll_seconds == 15
security_poll_seconds == 30
hostname == "rdp-host"

\* A tolerance of one poll interval instead of two.
_pending_disconnect_tolerance_single == Max(poll_seconds, security_poll_seconds)

_pending_disconnect_tolerance == Max(poll_seconds, security_poll_seconds) * 2

\* The model tells two readings of the clock apart when they are a security poll
\* interval apart.
ClockStep == security_poll_seconds

Times == {k * ClockStep : k \in 0..MaxSteps}
MaxTime == MaxSteps * ClockStep

\* ------------------------------------------------------------- formatting
_format_idle_minutes(minutes) ==
    IF minutes < 60 THEN ToString(minutes) \o "m"
    ELSE LET hours == minutes \div 60
             mins == minutes % 60
         IN  IF hours < 24 THEN ToString(hours) \o "h " \o ToString(mins) \o "m"
             ELSE ToString(hours \div 24) \o "d " \o ToString(hours % 24) \o "h "
                      \o ToString(mins) \o "m"

\* The quser logon-time texts that occur in the modelled session snapshots.
_format_logon_time(raw) ==
    CASE raw = "1/18/2026 3:05 PM" -> "1/18/2026 15:05"
      [] raw = "1/18/2026 12:07 AM" -> "1/18/2026 00:07"
      [] OTHER -> raw

\* strftime("%d/%m/%Y %H:%M") of a time of the modelled day: the seconds are cut.
_format_event_time_local(dt) ==
    "18/01/2026 " \o Pad2(dt \div 3600) \o ":" \o Pad2((dt % 3600) \div 60)

_format_duration_minutes(minutes) ==
    IF minutes < 1 THEN "0m"
    ELSE LET hours == minutes \div 60
             mins == minutes % 60
         IN  IF hours < 24
             THEN (IF hours /= 0 THEN ToString(hours) \o "h " \o ToString(mins) \o "m"
                   ELSE ToString(mins) \o "m")
             ELSE ToString(hours \div 24) \o "d " \o ToString(hours % 24) \o "h"

_format_duration_since(dt, now) ==
    LET delta == IF now - dt < 0 THEN 0 ELSE now - dt
        minutes == delta \div 60
    IN  IF minutes < 1 THEN "just now"
        ELSE _format_duration_minutes(minutes) \o " ago"

\* str.lower() on the texts that occur: session states and user names.
Lower(text) ==
    CASE text = "Active" -> "active"
      [] text = "ACTIVE" -> "active"
      [] text = "Disc" -> "disc"
      [] text = "Missing" -> "missing"
      [] text = "Alice" -> "alice"
      [] text = "Bob" -> "bob"
      [] OTHER -> text


\* ------------------------------------------------------------ geo.py
\* GeoCache.__init__ defaults, in seconds.
ttl == 86400
failure_ttl == 1800
_error_log_interval == 600

\* A success entry that keeps failure fields.
SuccessEntryStained(summary, now) ==
    [summary |-> Some(summary), fetched_at_utc |-> Some(now),
     failed_at_utc |-> Some(now), failure_reason |-> Some("stale")]

SuccessEntry(summary, now) ==
    [summary |-> Some(summary), fetched_at_utc |-> Some(now),
     failed_at_utc |-> None, failure_reason |-> None]
FailureEntry(error, now) ==
    [summary |-> None, fetched_at_utc |-> None,
     failed_at_utc |-> Some(now), failure_reason |-> Some(error)]

\* The provider's answers: a transport exception, a non-200 status, or a JSON body.
GeoException == [kind |-> "exception", status |-> 0, success |-> FALSE,
                 message |-> "", loc |-> "", org |-> ""]
GeoStatus(code) == [kind |-> "http", status |-> code, success |-> FALSE,
                    message |-> "", loc |-> "", org |-> ""]
GeoBody(success, message, loc, org) ==
    [kind |-> "http", status |-> 200, success |-> success,
     message |-> message, loc |-> loc, org |-> org]

\* _lookup_ipwho_is: <<summary, error>>.  loc is the joined city/region/country
\* ("" when all three are empty), org the org or the connection's org/isp.
_lookup_ipwho_is(resp) ==
    IF resp.kind = "exception"
    THEN <<None, Some("ipwho request failed (ConnectionError)")>>
    ELSE IF resp.status /= 200
    THEN <<None, Some("ipwho status " \o ToString(resp.status))>>
    ELSE IF ~resp.success
    THEN <<None, Some(IF resp.message /= "" THEN resp.message ELSE "ipwho error")>>
    ELSE IF resp.loc /= "" /\ resp.org /= ""
    THEN <<Some(resp.loc \o " | " \o resp.org), None>>
    ELSE IF resp.loc /= "" THEN <<Some(resp.loc), None>>
    ELSE IF resp.org /= "" THEN <<Some(resp.org), None>>
    ELSE <<None, None>>

\* _log_error: g is [cache, msg, utc]; printed tells whether the line is written.
_log_error(g, ip, message, now) ==
    IF g.msg = Some(message) /\ ~IsNone(g.utc) /\ now - Val(g.utc) <= _error_log_interval
    THEN [g |-> g, printed |-> FALSE]
    ELSE [g |-> [g EXCEPT !.msg = Some(message), !.utc = Some(now)], printed |-> TRUE]

\* A cache whose success entries end one second early.
CachedAnswerStrict(cache, ip, now) ==
    IF ip \notin DOMAIN cache THEN <<FALSE, None>>
    ELSE LET cached == cache[ip]
         IN  IF ~IsNone(cached.summary) /\ ~IsNone(cached.fetched_at_utc)
                /\ now - Val(cached.fetched_at_utc) < ttl
             THEN <<TRUE, cached.summary>>
             ELSE IF ~IsNone(cached.failed_at_utc)
                     /\ now - Val(cached.failed_at_utc) <= failure_ttl
             THEN <<TRUE, None>>
             ELSE <<FALSE, None>>

\* A cache whose failure entries never end.
CachedAnswerPoisoned(cache, ip, now) ==
    IF ip \notin DOMAIN cache THEN <<FALSE, None>>
    ELSE LET cached == cache[ip]
         IN  IF ~IsNone(cached.summary) /\ ~IsNone(cached.fetched_at_utc)
                /\ now - Val(cached.fetched_at_utc) <= ttl
             THEN <<TRUE, cached.summary>>
             ELSE IF ~IsNone(cached.failed_at_utc)
             THEN <<TRUE, None>>
             ELSE <<FALSE, None>>

\* Whether get_geo_string answers from the cache at 'now': <<hit, value>>.
CachedAnswer(cache, ip, now) ==
    IF ip \notin DOMAIN cache THEN <<FALSE, None>>
    ELSE LET cached == cache[ip]
         IN  IF ~IsNone(cached.summary) /\ ~IsNone(cached.fetched_at_utc)
                /\ now - Val(cached.fetched_at_utc) <= ttl
             THEN <<TRUE, cached.summary>>
             ELSE IF ~IsNone(cached.failed_at_utc)
                     /\ now - Val(cached.failed_at_utc) <= failure_ttl
             THEN <<TRUE, None>>
             ELSE <<FALSE, None>>

\* get_geo_string: [ret, g, looked, printed]; resp is the provider's answer if it
\* is asked, looked whether it was asked.
get_geo_string(g, enabled, ip, now, resp) ==
    IF ~enabled \/ ip = ""
    THEN [ret |-> None, g |-> g, looked |-> FALSE, printed |-> FALSE]
    ELSE LET hit == CachedAnswer(g.cache, ip, now)
         IN  IF hit[1] THEN [ret |-> hit[2], g |-> g, looked |-> FALSE, printed |-> FALSE]
             ELSE LET res == _lookup_ipwho_is(resp)
                      summary == res[1]
                      error == res[2]
                      put(e) == [i \in DOMAIN g.cache \cup {ip} |->
                                    IF i = ip THEN e ELSE g.cache[i]]
                  IN  IF ~IsNone(summary)
                      THEN [ret |-> summary, looked |-> TRUE, printed |-> FALSE,
                            g |-> [g EXCEPT !.cache = put(SuccessEntry(Val(summary), now))]]
                      ELSE IF ~IsNone(error)
                      THEN LET lg == _log_error(
                                       [g EXCEPT !.cache = put(FailureEntry(Val(error), now))],
                                       ip, Val(error), now)
                           IN  [ret |-> None, looked |-> TRUE, printed |-> lg.printed,
                                g |-> lg.g]
                      ELSE [ret |-> None, g |-> g, looked |-> TRUE, printed |-> FALSE]

\* ------------------------------------------------ wevtutil_security.py
\* One <Event> of the tool's output: TargetUserName, LogonType, IpAddress and the
\* parsed TimeCreated (None when _parse_event_time_utc fails).
Event(user, logon_type, ip, time) ==
    [user |-> user, logon_type |-> logon_type, ip |-> ip, time |-> time]
NoRecord == [ip |-> None, time |-> None]
\* The tool printed nothing, or XML that does not parse.
NoOutput == [parsed |-> FALSE, events |-> <<>>]
Output(events) == [parsed |-> TRUE, events |-> events]
Get(by_user, username) ==
    IF username \in DOMAIN by_user THEN by_user[username] ELSE NoRecord

\* A replacement test that lets an event of the same time replace the kept one.
ReplacesKeptOrEqual(current_time, event_time_utc) ==
    IsNone(current_time)
        \/ (~IsNone(event_time_utc) /\ Val(event_time_utc) >= Val(current_time))

\* The replacement test of the loop body (wevtutil_security.py:101).
ReplacesKept(current_time, event_time_utc) ==
    IsNone(current_time)
        \/ (~IsNone(event_time_utc) /\ Val(event_time_utc) > Val(current_time))

RECURSIVE LogonLoop(_, _, _)
LogonLoop(result, wanted, events) ==
    IF events = <<>> THEN result
    ELSE LET event == Head(events)
             target_user == Lower(event.user)
             skip == \/ target_user \notin wanted
                     \/ event.logon_type \notin {"10", "7"}
                     \/ event.ip \in {"", "-", "::1", "127.0.0.1"}
             next == IF ~skip /\ ReplacesKept(result[target_user].time, event.time)
                     THEN [result EXCEPT ![target_user] =
                              [ip |-> Some(event.ip), time |-> event.time]]
                     ELSE result
         IN  LogonLoop(next, wanted, Tail(events))

\* get_latest_rdp_logons: out is the tool's output, [parsed, events]; no output or
\* unparsable XML gives the default entries.
get_latest_rdp_logons(usernames, out) ==
    LET wanted == {Lower(u) : u \in Range(usernames)}
        result == [u \in wanted |-> NoRecord]
    IN  IF ~out.parsed THEN result ELSE LogonLoop(result, wanted, out.events)

RECURSIVE DisconnectLoop(_, _, _)
DisconnectLoop(result, wanted, events) ==
    IF events = <<>> THEN result
    ELSE LET event == Head(events)
             target_user == Lower(event.user)
             next == IF target_user \in wanted
                        /\ ReplacesKept(result[target_user].time, event.time)
                     THEN [result EXCEPT ![target_user] =
                              [ip |-> IF event.ip = "" THEN None ELSE Some(event.ip),
                               time |-> event.time]]
                     ELSE result
         IN  DisconnectLoop(next, wanted, Tail(events))

\* get_latest_rdp_disconnects is imported by main.py:16 and is not among the
\* sources: the latest logoff per user, kept as the logons are.
get_latest_rdp_disconnects(usernames, out) ==
    LET wanted == {Lower(u) : u \in Range(usernames)}
        result == [u \in wanted |-> NoRecord]
    IN  IF ~out.parsed THEN result ELSE DisconnectLoop(result, wanted, out.events)

\* ------------------------------------------------------- rows (main.py)
IdleInfo(raw, minutes) == [raw |-> raw, minutes |-> minutes]
\* SessionInfo without session_name and session_id, which nothing reads but the row.
SessionInfo(state, idle, logon_time_raw) ==
    [state |-> state, idle |-> idle, logon_time_raw |-> logon_time_raw]

\* An engaged flag that wants the idle time below the threshold.
EngagedBelow(info) ==
    /\ Lower(info.state) = "active"
    /\ ~IsNone(info.idle.minutes)
    /\ Val(info.idle.minutes) < idle_threshold_minutes

\* The engaged flag of a row built from a session (main.py:266).
Engaged(info) ==
    /\ Lower(info.state) = "active"
    /\ ~IsNone(info.idle.minutes)
    /\ Val(info.idle.minutes) <= idle_threshold_minutes

MissingRow(username, logon, disconnect, pending_since) ==
    [username |-> username, state |-> "Missing", idle |-> IdleInfo("(none)", None),
     engaged |-> FALSE, logon_time_raw |-> None,
     last_rdp_ip |-> logon.ip, last_rdp_time_utc |-> logon.time,
     last_rdp_disconnect_time_utc |-> disconnect.time,
     pending_disconnect_since |-> pending_since,
     pending_disconnect |-> ~IsNone(pending_since),
     last_rdp_geo |-> None]

SessionRow(username, info, logon, disconnect, pending_since, geo) ==
    [username |-> username, state |-> info.state, idle |-> info.idle,
     engaged |-> Engaged(info), logon_time_raw |-> info.logon_time_raw,
     last_rdp_ip |-> logon.ip, last_rdp_time_utc |-> logon.time,
     last_rdp_disconnect_time_utc |-> disconnect.time,
     pending_disconnect_since |-> pending_since,
     pending_disconnect |-> ~IsNone(pending_since),
     last_rdp_geo |-> geo]

Truthy(opt_str) == ~IsNone(opt_str) /\ Val(opt_str) /= ""

\* The loop of _build_rows from position i on: [rows, g, looked].  sessions maps a
\* username to None or Some(SessionInfo); resps[i] answers the geo lookup of row i.
RECURSIVE BuildRowsFrom(_, _, _, _, _, _, _, _, _)
BuildRowsFrom(i, sessions, rdp_ip_by_user, rdp_disconnect_by_user, pending, g, enabled, now, resps) ==
    IF i > Len(monitor_users) THEN [rows |-> <<>>, g |-> g, looked |-> 0]
    ELSE LET username == monitor_users[i]
             info == sessions[username]
             logon == Get(rdp_ip_by_user, username)
             disconnect == Get(rdp_disconnect_by_user, username)
             pending_since == pending[username]
             geo == IF ~IsNone(info) /\ Truthy(logon.ip)
                    THEN get_geo_string(g, enabled, Val(logon.ip), now, resps[i])
                    ELSE [ret |-> None, g |-> g, looked |-> FALSE, printed |-> FALSE]
             row == IF IsNone(info)
                    THEN MissingRow(username, logon, disconnect, pending_since)
                    ELSE SessionRow(username, Val(info), logon, disconnect,
                                    pending_since, geo.ret)
             rest == BuildRowsFrom(i + 1, sessions, rdp_ip_by_user,
                                   rdp_disconnect_by_user, pending, geo.g, enabled,
                                   now, resps)
         IN  [rows |-> <<row>> \o rest.rows, g |-> rest.g,
              looked |-> rest.looked + (IF geo.looked THEN 1 ELSE 0)]

\* A row builder that leaves out the users who have no session.
_build_rows_present(sessions, rdp_ip_by_user, rdp_disconnect_by_user, pending, g, enabled, now, resps) ==
    LET built == BuildRowsFrom(1, sessions, rdp_ip_by_user, rdp_disconnect_by_user,
                               pending, g, enabled, now, resps)
    IN  [built EXCEPT !.rows = SelectSeq(built.rows, LAMBDA r : r.state /= "Missing")]

_build_rows(sessions, rdp_ip_by_user, rdp_disconnect_by_user, pending, g, enabled, now, resps) ==
    BuildRowsFrom(1, sessions, rdp_ip_by_user, rdp_disconnect_by_user, pending, g,
                  enabled, now, resps)

\* ------------------------------------------------------ embed (main.py)
_status_dot(row) ==
    IF Lower(row.state) = "active"
    THEN (IF row.engaged THEN ":red_circle:" ELSE ":yellow_circle:")
    ELSE ":green_circle:"

AwaitingLine == "Last Connected: '...'"

\* Whether the disconnect time is absent or earlier than the flag less the
\* tolerance (main.py:331).
Unconfirmed(disconnect_time, pending_since) ==
    IsNone(disconnect_time)
        \/ Val(disconnect_time) < Val(pending_since) - _pending_disconnect_tolerance

ActiveLines(row, last_checked_utc) ==
    LET idle_display == IF ~IsNone(row.idle.minutes)
                        THEN _format_idle_minutes(Val(row.idle.minutes))
                        ELSE row.idle.raw
        engaged_text == IF row.engaged THEN "Yes" ELSE "No"
        duration == IF ~IsNone(row.last_rdp_time_utc)
                    THEN Some(_format_duration_minutes(
                           Max(0, last_checked_utc - Val(row.last_rdp_time_utc)) \div 60))
                    ELSE None
        tail == IF ~IsNone(duration) THEN " | '" \o Val(duration) \o "'" ELSE ""
        ip_line == IF Truthy(row.last_rdp_ip)
                   THEN "Connected: '" \o Val(row.last_rdp_ip) \o "'"
                          \o (IF Truthy(row.last_rdp_geo)
                              THEN " (" \o Val(row.last_rdp_geo) \o ")" ELSE "")
                          \o tail
                   ELSE "Connected: '(unknown)'" \o tail
    IN  << "State: '" \o row.state \o "' | Engaged: '" \o engaged_text
             \o "' | Idle: '" \o idle_display \o "'", ip_line >>

LastConnectedLine(row, last_checked_utc) ==
    IF row.pending_disconnect /\ IsNone(row.last_rdp_disconnect_time_utc)
    THEN AwaitingLine
    ELSE IF ~IsNone(row.last_rdp_disconnect_time_utc)
    THEN "Last Connected: '"
           \o _format_event_time_local(Val(row.last_rdp_disconnect_time_utc)) \o " ("
           \o _format_duration_since(Val(row.last_rdp_disconnect_time_utc), last_checked_utc)
           \o ")'"
    ELSE IF ~IsNone(row.last_rdp_time_utc)
    THEN "Last Connected: '"
           \o _format_event_time_local(Val(row.last_rdp_time_utc)) \o " ("
           \o _format_duration_since(Val(row.last_rdp_time_utc), last_checked_utc)
           \o ")'"
    ELSE IF Truthy(row.logon_time_raw)
    THEN "Last Connected: '" \o _format_logon_time(Val(row.logon_time_raw)) \o "'"
    ELSE "Last Connected: '-'"

InactiveLines(row, last_checked_utc) ==
    LET state_display == IF Lower(row.state) = "disc" THEN "Disconnected" ELSE row.state
        first == "State: '" \o state_display \o "'"
    IN  IF ~IsNone(row.pending_disconnect_since)
           /\ Unconfirmed(row.last_rdp_disconnect_time_utc, row.pending_disconnect_since)
        THEN <<first, AwaitingLine>>
        ELSE <<first, LastConnectedLine(row, last_checked_utc)>>

\* One embed field: the value is the lines that "\n".join puts together.
Field(row, last_checked_utc) ==
    [name |-> _status_dot(row) \o " " \o _display_name(row.username),
     value |-> IF Lower(row.state) = "active"
               THEN ActiveLines(row, last_checked_utc)
               ELSE InactiveLines(row, last_checked_utc)]

_build_embed(rows, last_checked_utc) ==
    [title |-> "RDP Session Monitor (" \o hostname \o ")",
     footer |-> "Last checked",
     timestamp |-> Some(last_checked_utc),
     fields |-> [i \in 1..Len(rows) |-> Field(rows[i], last_checked_utc)]]

\* _embed_to_stable_json: the payload without its timestamp; json.dumps with
\* sorted keys is one-to-one on payloads.
_embed_to_stable_json(embed) == [embed EXCEPT !.timestamp = None]

\* ------------------------------------------------------------------ state
VARIABLES
    clock,                      \* the wall clock (datetime.now), in seconds
    pc,                         \* where the process and its update_panel task are
    cpc,                        \* where close() is
    enabled,                    \* GeoCache.enabled (GEOLOOKUP_ENABLED)
    _panel_message_id,
    _last_embed_json,
    _last_security_poll_utc,
    queriedAt,                  \* when this process last queried the security log
    _last_rdp_logons,
    _last_rdp_disconnects,
    _last_session_states,
    _pending_disconnect_since,
    geo,                        \* GeoCache: [cache, msg, utc] (_cache, _last_error_*)
    store,                      \* data/state.json: its panel_message_id
    live,                       \* the monitor's messages that exist in the channel
    content,                    \* their embeds, without the timestamp
    nextId,                     \* the id the platform gives the next message
    now,                        \* update_panel's locals: now, rows, embed, message
    rows,
    embed,
    message,
    close_message,              \* the id _delete_panel_message asked the platform for
    refreshed,                  \* whether the tick took the refresh branch (main.py:389)
    reconciled,                 \* the users whose flag line 401 cleared in the tick
    lastOp,                     \* the last publisher step taken; for a step of
                                \* close, the request and the platform's answer
    runBase,                    \* nextId when this process started
    runPersists,                \* set_panel_message_id(id) calls of this process
    startStale,                 \* on_ready read an id whose message was gone
    geoTrace,                   \* what the calls of get_geo_string did (see GeoCall)
    fetched                     \* the tool output the last call of FetchLogons read

vars == <<clock, pc, cpc, enabled, _panel_message_id, _last_embed_json,
          _last_security_poll_utc, queriedAt, _last_rdp_logons, _last_rdp_disconnects,
          _last_session_states, _pending_disconnect_since, geo, store, live, content,
          nextId, now, rows, embed, message, close_message, refreshed, reconciled,
          lastOp, runBase, runPersists, startStale, geoTrace, fetched>>

\* What SessionMonitorClient.__init__ and GeoCache.__init__ set (main.py:143-153).
volatile == <<_panel_message_id, _last_embed_json, _last_security_poll_utc, queriedAt,
              _last_rdp_logons, _last_rdp_disconnects, _last_session_states,
              _pending_disconnect_since, now, rows, embed, message, close_message,
              refreshed, reconciled>>
durable == <<store, live, content, nextId, enabled>>
ghosts == <<lastOp, runBase, runPersists, startStale, geoTrace, fetched>>

Constructed ==
    /\ _panel_message_id = None
    /\ _last_embed_json = None
    /\ _last_security_poll_utc = None
    /\ queriedAt = None
    /\ _last_rdp_logons = [u \in Users |-> NoRecord]
    /\ _last_rdp_disconnects = [u \in Users |-> NoRecord]
    /\ _last_session_states = [u \in Users |-> ""]
    /\ _pending_disconnect_since = [u \in Users |-> None]
    /\ now = 0
    /\ rows = <<>>
    /\ embed = None
    /\ message = None
    /\ close_message = None
    /\ refreshed = FALSE
    /\ reconciled = {}

\* The same values, given to the next state when the process ends.
Reconstructed ==
    /\ _panel_message_id' = None
    /\ _last_embed_json' = None
    /\ _last_security_poll_utc' = None
    /\ queriedAt' = None
    /\ _last_rdp_logons' = [u \in Users |-> NoRecord]
    /\ _last_rdp_disconnects' = [u \in Users |-> NoRecord]
    /\ _last_session_states' = [u \in Users |-> ""]
    /\ _pending_disconnect_since' = [u \in Users |-> None]
    /\ now' = 0
    /\ rows' = <<>>
    /\ embed' = None
    /\ message' = None
    /\ close_message' = None
    /\ refreshed' = FALSE
    /\ reconciled' = {}

\* No call of get_geo_string yet.  call is the last call: its ip, the time, whether
\* the provider was asked, the summary or the reason _lookup_ipwho_is gave, whether
\* a log line was written and what was returned; missAt[ip] is the time of the last lookup for ip that gave
\* no summary, printedAt[reason] the time of the last log line with that reason.
NoTrace ==
    [call |-> [ip |-> "", at |-> 0, looked |-> FALSE, summary |-> None,
               reason |-> None, printed |-> FALSE, ret |-> None],
     missAt |-> <<>>,
     printedAt |-> <<>>]

\* The process has not started and the channel holds no message of the monitor.
\* stored is what data/state.json may hold: nothing, or the id (0) of a panel
\* message of an earlier deployment that has been deleted since.
InitWith(geo_enabled, stored) ==
    /\ clock = 0
    /\ pc = "down"
    /\ cpc = "none"
    /\ enabled \in geo_enabled
    /\ Constructed
    /\ geo = [cache |-> <<>>, msg |-> None, utc |-> None]
    /\ store \in stored
    /\ live = {}
    /\ content = <<>>
    /\ nextId = 1
    /\ lastOp = "init"
    /\ runBase = 1
    /\ runPersists = 0
    /\ startStale = FALSE
    /\ geoTrace = NoTrace
    /\ fetched = NoOutput

\* ------------------------------------------------ update_panel (main.py)
\* current_states of the tick (main.py:374-377).
CurrentStates(sessions) ==
    [u \in Users |-> IF IsNone(sessions[u]) THEN "missing"
                     ELSE Lower(Val(sessions[u]).state)]

\* A transition step that does not look at the stored state: whoever is not
\* active gets the flag.
TransitionStepEager(prev_state, current_state, pending_since, tick_now) ==
    IF current_state /= "active" THEN Some(tick_now) ELSE None

\* A transition step without the elif of line 383: an active user keeps the flag.
TransitionStepSticky(prev_state, current_state, pending_since, tick_now) ==
    IF prev_state = "active" /\ current_state /= "active" THEN Some(tick_now)
    ELSE pending_since

\* The transition step for one user (main.py:380-384): the new flag.
TransitionStep(prev_state, current_state, pending_since, tick_now) ==
    IF prev_state = "active" /\ current_state /= "active" THEN Some(tick_now)
    ELSE IF current_state = "active" THEN None
    ELSE pending_since

\* A confirmation that wants the event strictly inside the tolerance window.
ConfirmsStrictly(disconnect_time, pending_since) ==
    /\ ~IsNone(disconnect_time)
    /\ Val(disconnect_time) > Val(pending_since) - _pending_disconnect_tolerance

\* Whether a fresh disconnect time confirms the flag (main.py:400).
Confirms(disconnect_time, pending_since) ==
    /\ ~IsNone(disconnect_time)
    /\ Val(disconnect_time) >= Val(pending_since) - _pending_disconnect_tolerance

\* A reconciliation that reads the snapshot of the refresh before this one.
ReconcileHeld(pending, rdp_disconnect_by_user) ==
    {u \in Users : /\ ~IsNone(pending[u])
                   /\ ~IsNone(_last_rdp_disconnects[u].time)
                   /\ Val(_last_rdp_disconnects[u].time)
                        >= Val(pending[u]) - _pending_disconnect_tolerance}

\* The reconciliation after a refresh (main.py:395-401): the users it clears.
Reconcile(pending, rdp_disconnect_by_user) ==
    {u \in Users : /\ ~IsNone(pending[u])
                   /\ Confirms(Get(rdp_disconnect_by_user, u).time, pending[u])}

\* A tick that queries the security log every time.
_should_refresh_security_always(clock_now) == TRUE

\* A refresh that keeps what was known of a user for whom it returned nothing.
SnapshotKeepingKnown(previous, returned) ==
    [u \in DOMAIN returned |->
        IF returned[u] = NoRecord /\ u \in DOMAIN previous THEN previous[u]
        ELSE returned[u]]

\* What a refresh stores in place of the previous snapshot (main.py:393-394).
Snapshot(previous, returned) == returned

\* _should_refresh_security, reading the clock again (main.py:363-367).
_should_refresh_security(clock_now) ==
    IsNone(_last_security_poll_utc)
        \/ clock_now - Val(_last_security_poll_utc) >= security_poll_seconds

\* The provider's answers to the lookups of one tick, one per row; rows that ask
\* nothing (geo disabled, no session) get no choice.
GeoAnswers(resps, sessions) ==
    LET asks(i) == enabled /\ ~IsNone(sessions[monitor_users[i]])
    IN  {f \in [1..Len(monitor_users) -> resps \cup {GeoException}] :
           \A i \in 1..Len(monitor_users) : ~asks(i) => f[i] = GeoException}

\* update_panel up to its first await (main.py:371-409 and 176-179).  env holds what
\* the tick's sources may answer: snaps (get_quser_sessions), logons[t] and
\* disconnects[t] (the wevtutil outputs at clock t), resps (the geo provider), and
\* skews, the time get_quser_sessions may take (_should_refresh_security reads the
\* clock after it).
update_panel(env) ==
    /\ pc = "idle"
    /\ \E sessions \in env.snaps, clock_now \in {clock + d : d \in env.skews} \cap Times :
         LET tick_now == clock
             current_states == CurrentStates(sessions)
             stepped == [u \in Users |->
                           TransitionStep(_last_session_states[u], current_states[u],
                                          _pending_disconnect_since[u], tick_now)]
             refresh == _should_refresh_security(clock_now)
         IN  /\ now' = tick_now
             /\ clock' = clock_now
             /\ _last_session_states' = current_states
             /\ refreshed' = refresh
             /\ _last_security_poll_utc' =
                    IF refresh THEN Some(tick_now) ELSE _last_security_poll_utc
             /\ queriedAt' = IF refresh THEN Some(clock_now) ELSE queriedAt
             /\ \E lout \in (IF refresh THEN env.logons[clock_now] ELSE {NoOutput}),
                   dout \in (IF refresh THEN env.disconnects[clock_now] ELSE {NoOutput}),
                   resps \in GeoAnswers(env.resps, sessions) :
                  LET rdp_ip_by_user ==
                          IF refresh THEN get_latest_rdp_logons(monitor_users, lout)
                          ELSE _last_rdp_logons
                      rdp_disconnect_by_user ==
                          IF refresh
                          THEN get_latest_rdp_disconnects(monitor_users, dout)
                          ELSE _last_rdp_disconnects
                      cleared == IF refresh THEN Reconcile(stepped, rdp_disconnect_by_user)
                                 ELSE {}
                      pending == [u \in Users |->
                                    IF u \in cleared THEN None ELSE stepped[u]]
                      built == _build_rows(sessions, rdp_ip_by_user,
                                           rdp_disconnect_by_user, pending, geo,
                                           enabled, clock_now, resps)
                  IN  /\ _last_rdp_logons' =
                             IF refresh THEN Snapshot(_last_rdp_logons, rdp_ip_by_user)
                             ELSE _last_rdp_logons
                      /\ _last_rdp_disconnects' =
                             IF refresh
                             THEN Snapshot(_last_rdp_disconnects, rdp_disconnect_by_user)
                             ELSE _last_rdp_disconnects
                      /\ _pending_disconnect_since' = pending
                      /\ reconciled' = cleared
                      /\ rows' = built.rows
                      /\ geo' = built.g
                      /\ embed' = Some(_build_embed(built.rows, tick_now))
    /\ pc' = "chan"
    /\ message' = None
    /\ lastOp' = "tick"
    /\ UNCHANGED <<cpc, enabled, _panel_message_id, _last_embed_json, store, live,
                   content, nextId, close_message, runBase, runPersists, startStale,
                   geoTrace, fetched>>

\* Time passes between two ticks.
Advance ==
    /\ pc \in {"down", "idle", "failed"}
    /\ clock < MaxTime
    /\ clock' = clock + ClockStep
    /\ UNCHANGED <<pc, cpc, volatile, durable, geo, ghosts>>

\* ------------------------------------------- the publisher (main.py:175-200)
\* What the platform may answer to a request about message id m.
MessageOutcomes(m) ==
    IF ~IsNone(m) /\ Val(m) \in live THEN {"ok", "forbidden", "http_error"}
    ELSE IF ~IsNone(m) THEN {"not_found", "forbidden", "http_error"}
    ELSE {"forbidden", "http_error"}
ChannelOutcomes == {"ok", "not_found", "forbidden", "http_error", "not_messageable"}
SendOutcomes == {"ok", "forbidden", "http_error"}

\* A publisher that sends the tick's document whatever the last one was.
NeedsEditAlways == TRUE

\* main.py:411-412: whether the tick's document is to be sent.
NeedsEdit == Some(_embed_to_stable_json(Val(embed))) /= _last_embed_json

\* _get_or_create_panel_message has returned: update_panel goes on at line 411.
Returned ==
    IF NeedsEdit THEN pc' = "edit" /\ lastOp' = "returned"
    ELSE pc' = "idle" /\ lastOp' = "skipped"

\* An exception leaves update_panel: the loop of discord.ext.tasks ends.
Raised == pc' = "failed" /\ lastOp' = "failed"

\* update_panel when the security-log tool is not installed: subprocess.run raises
\* FileNotFoundError in get_latest_rdp_logons (wevtutil_security.py:52-65), which
\* neither that function nor update_panel catches (main.py:390).  Lines 371-385
\* have run; nothing after line 390 does.
update_panel_tool_missing(env) ==
    /\ pc = "idle"
    /\ \E sessions \in env.snaps :
         LET tick_now == clock
             current_states == CurrentStates(sessions)
         IN  /\ _should_refresh_security(clock) = TRUE
             /\ now' = tick_now
             /\ _last_session_states' = current_states
             /\ _pending_disconnect_since' =
                    [u \in Users |->
                       TransitionStep(_last_session_states[u], current_states[u],
                                      _pending_disconnect_since[u], tick_now)]
    /\ Raised
    /\ UNCHANGED <<clock, cpc, enabled, _panel_message_id, _last_embed_json,
                   _last_security_poll_utc, queriedAt, _last_rdp_logons, _last_rdp_disconnects,
                   geo, store, live, content, nextId, rows, embed, message,
                   close_message, refreshed, reconciled, runBase, runPersists,
                   startStale,
                   geoTrace, fetched>>

\* await fetch_channel ends (main.py:176-190).
tick_fetch_channel(outs) ==
    /\ pc = "chan"
    /\ \E outcome \in ChannelOutcomes \cap outs :
         IF outcome /= "ok" THEN Raised /\ message' = message
         ELSE IF ~IsNone(_panel_message_id)
         THEN pc' = "fetch" /\ message' = _panel_message_id /\ lastOp' = "channel"
         ELSE pc' = "send" /\ message' = None /\ lastOp' = "channel"
    /\ UNCHANGED <<clock, cpc, enabled, _panel_message_id, _last_embed_json,
                   _last_security_poll_utc, queriedAt, _last_rdp_logons, _last_rdp_disconnects,
                   _last_session_states, _pending_disconnect_since, geo, store, live,
                   content, nextId, now, rows, embed, close_message, refreshed,
                   reconciled, runBase, runPersists, startStale,
                   geoTrace, fetched>>

\* A cleanup that forgets the id in memory and leaves the store as it is.
NotFoundCleanupMemoryOnly == _panel_message_id' = None /\ store' = store

\* A send that writes the new id to the store and not to memory.
RememberStoreOnly == _panel_message_id' = _panel_message_id /\ store' = message

\* main.py:194-195: the id is forgotten in memory and in the store.
NotFoundCleanup == _panel_message_id' = None /\ store' = None

\* main.py:198-199: the id of the message sent is kept in memory and in the store.
Remember == _panel_message_id' = message /\ store' = message

\* What line 191-195 does with the answer to fetch_message.
FetchHandling(outcome) ==
    CASE outcome = "ok" -> "return"
      [] outcome = "not_found" -> "recreate"
      [] OTHER -> "raise"

\* await channel.fetch_message ends (main.py:191-197).
tick_fetch_message(outs) ==
    /\ pc = "fetch"
    /\ \E outcome \in MessageOutcomes(message) \cap outs :
         LET todo == FetchHandling(outcome)
         IN  /\ IF todo = "return" THEN Returned
                ELSE IF todo = "recreate" THEN pc' = "send" /\ lastOp' = "not_found"
                ELSE Raised
             /\ IF todo = "recreate" THEN NotFoundCleanup
                ELSE UNCHANGED <<_panel_message_id, store,
                   geoTrace, fetched>>
    /\ UNCHANGED <<clock, cpc, enabled, _last_embed_json, _last_security_poll_utc, queriedAt,
                   _last_rdp_logons, _last_rdp_disconnects, _last_session_states,
                   _pending_disconnect_since, geo, live, content, nextId, now, rows,
                   embed, message, close_message, refreshed, reconciled, runBase,
                   runPersists, startStale,
                   geoTrace, fetched>>

\* The platform handles channel.send(embed=_build_embed(rows=[], ...)) (main.py:197).
platform_send(outs) ==
    /\ pc = "send"
    /\ \E outcome \in SendOutcomes \cap outs :
         IF outcome = "ok"
         THEN /\ nextId <= MaxMsgs
              /\ live' = live \cup {nextId}
              /\ content' = [m \in live \cup {nextId} |->
                               IF m = nextId
                               THEN _embed_to_stable_json(_build_embed(<<>>, clock))
                               ELSE content[m]]
              /\ nextId' = nextId + 1
              /\ message' = Some(nextId)
              /\ pc' = "sent"
              /\ lastOp' = "created"
         ELSE Raised /\ UNCHANGED <<live, content, nextId, message,
                   geoTrace, fetched>>
    /\ UNCHANGED <<clock, cpc, enabled, _panel_message_id, _last_embed_json,
                   _last_security_poll_utc, queriedAt, _last_rdp_logons, _last_rdp_disconnects,
                   _last_session_states, _pending_disconnect_since, geo, store, now,
                   rows, embed, close_message, refreshed, reconciled, runBase,
                   runPersists, startStale,
                   geoTrace, fetched>>

\* await channel.send ends with the message (main.py:198-200, 411-412).
tick_sent ==
    /\ pc = "sent"
    /\ Remember
    /\ runPersists' = runPersists + 1
    /\ IF NeedsEdit THEN pc' = "edit" /\ lastOp' = "persisted"
       ELSE pc' = "idle" /\ lastOp' = "persisted_skipped"
    /\ UNCHANGED <<clock, cpc, enabled, _last_embed_json, _last_security_poll_utc, queriedAt,
                   _last_rdp_logons, _last_rdp_disconnects, _last_session_states,
                   _pending_disconnect_since, geo, live, content, nextId, now, rows,
                   embed, message, close_message, refreshed, reconciled, runBase,
                   startStale,
                   geoTrace, fetched>>

\* await message.edit(embed=embed) ends (main.py:413-414).
tick_edit(outs) ==
    /\ pc = "edit"
    /\ \E outcome \in MessageOutcomes(message) \cap outs :
         IF outcome = "ok"
         THEN /\ content' = [content EXCEPT ![Val(message)] =
                               _embed_to_stable_json(Val(embed))]
              /\ _last_embed_json' = Some(_embed_to_stable_json(Val(embed)))
              /\ pc' = "idle"
              /\ lastOp' = "edited"
         ELSE Raised /\ UNCHANGED <<content, _last_embed_json,
                   geoTrace, fetched>>
    /\ UNCHANGED <<clock, cpc, enabled, _panel_message_id, _last_security_poll_utc, queriedAt,
                   _last_rdp_logons, _last_rdp_disconnects, _last_session_states,
                   _pending_disconnect_since, geo, store, live, nextId, now, rows,
                   embed, message, close_message, refreshed, reconciled, runBase,
                   runPersists, startStale,
                   geoTrace, fetched>>

\* A cleanup at shutdown that takes every failed fetch of the message for its
\* absence.
DeleteHandlingEager(stage, outcome) ==
    CASE stage = "chan" -> IF outcome = "ok" THEN "go_on" ELSE "return"
      [] stage = "fetch" -> IF outcome = "ok" THEN "go_on" ELSE "clear"
      [] stage = "delete" -> IF outcome = "ok" THEN "clear" ELSE "return"

\* ------------------------------- close / _delete_panel_message (main.py:171-232)
\* What _delete_panel_message does with the answer to fetch_channel (206-214),
\* to fetch_message (217-223) and to message.delete (224-228): "go_on", "clear"
\* (deleted = True), "return", or "raise" when no except clause takes it.
DeleteHandling(stage, outcome) ==
    CASE stage = "chan" -> IF outcome = "ok" THEN "go_on" ELSE "return"
      [] stage = "fetch" -> (IF outcome = "ok" THEN "go_on"
                             ELSE IF outcome = "not_found" THEN "clear" ELSE "return")
      [] stage = "delete" -> IF outcome = "ok" THEN "clear" ELSE "return"

\* main.py:230-232.
Cleared == _panel_message_id' = None /\ store' = None

\* close() is called: _delete_panel_message up to its first await (main.py:203-209).
close ==
    /\ pc \notin {"down"}
    /\ cpc = "none"
    /\ IF IsNone(_panel_message_id) THEN cpc' = "super" ELSE cpc' = "chan"
    /\ lastOp' = "close"
    /\ UNCHANGED <<clock, pc, volatile, durable, geo, runBase, runPersists, startStale,
                   geoTrace, fetched>>

close_fetch_channel(outs) ==
    /\ cpc = "chan"
    /\ \E outcome \in ChannelOutcomes \cap outs :
         LET todo == DeleteHandling("chan", outcome)
         IN  IF todo = "go_on"
             THEN cpc' = "fetch" /\ close_message' = _panel_message_id
                    /\ lastOp' = "close_channel:" \o outcome
             ELSE cpc' = (IF todo = "raise" THEN "raised" ELSE "super")
                    /\ close_message' = close_message
                    /\ lastOp' = "close_channel:" \o outcome
    /\ UNCHANGED <<clock, pc, enabled, _panel_message_id, _last_embed_json,
                   _last_security_poll_utc, queriedAt, _last_rdp_logons, _last_rdp_disconnects,
                   _last_session_states, _pending_disconnect_since, geo, store, live,
                   content, nextId, now, rows, embed, message, refreshed, reconciled,
                   runBase, runPersists, startStale,
                   geoTrace, fetched>>

close_fetch_message(outs) ==
    /\ cpc = "fetch"
    /\ \E outcome \in MessageOutcomes(close_message) \cap outs :
         LET todo == DeleteHandling("fetch", outcome)
         IN  /\ cpc' = (CASE todo = "go_on" -> "delete"
                          [] todo = "raise" -> "raised"
                          [] OTHER -> "super")
             /\ lastOp' = "close_fetch:" \o outcome
             /\ IF todo = "clear" THEN Cleared ELSE UNCHANGED <<_panel_message_id, store,
                   geoTrace, fetched>>
    /\ UNCHANGED <<clock, pc, enabled, _last_embed_json, _last_security_poll_utc, queriedAt,
                   _last_rdp_logons, _last_rdp_disconnects, _last_session_states,
                   _pending_disconnect_since, geo, live, content, nextId, now, rows,
                   embed, message, close_message, refreshed, reconciled, runBase,
                   runPersists, startStale,
                   geoTrace, fetched>>

close_delete(outs) ==
    /\ cpc = "delete"
    /\ \E outcome \in MessageOutcomes(close_message) \cap outs :
         LET todo == DeleteHandling("delete", outcome)
         IN  /\ cpc' = (IF todo = "raise" THEN "raised" ELSE "super")
             /\ lastOp' = "close_delete:" \o outcome
             /\ IF outcome = "ok"
                THEN /\ live' = live \ {Val(close_message)}
                     /\ content' = [m \in live \ {Val(close_message)} |-> content[m]]
                ELSE UNCHANGED <<live, content,
                   geoTrace, fetched>>
             /\ IF todo = "clear" THEN Cleared ELSE UNCHANGED <<_panel_message_id, store,
                   geoTrace, fetched>>
    /\ UNCHANGED <<clock, pc, enabled, _last_embed_json, _last_security_poll_utc, queriedAt,
                   _last_rdp_logons, _last_rdp_disconnects, _last_session_states,
                   _pending_disconnect_since, geo, nextId, now, rows, embed, message,
                   close_message, refreshed, reconciled, runBase, runPersists,
                   startStale,
                   geoTrace, fetched>>

\* The process is gone: what it held in memory is what __init__ sets next time.
Stopped ==
    /\ pc' = "down"
    /\ cpc' = "none"
    /\ Reconstructed
    /\ geo' = [geo EXCEPT !.msg = None, !.utc = None]
    /\ UNCHANGED <<clock, durable, runBase, runPersists, startStale,
                   geoTrace, fetched>>

\* super().close() (main.py:173): the client ends and client.run returns.
close_super ==
    /\ cpc \in {"super", "raised"}
    /\ Stopped
    /\ lastOp' = "closed"

\* The process is killed, at any point.
Crash ==
    /\ pc /= "down"
    /\ Stopped
    /\ lastOp' = "crash"

\* The process starts; on_ready reads the stored id and starts the loop
\* (main.py:166-169).
on_ready ==
    /\ pc = "down"
    /\ pc' = "idle"
    /\ _panel_message_id' = store
    /\ lastOp' = "ready"
    /\ runBase' = nextId
    /\ runPersists' = 0
    /\ startStale' = (~IsNone(store) /\ Val(store) \notin live)
    /\ UNCHANGED <<clock, cpc, enabled, _last_embed_json, _last_security_poll_utc, queriedAt,
                   _last_rdp_logons, _last_rdp_disconnects, _last_session_states,
                   _pending_disconnect_since, geo, store, live, content, nextId, now,
                   rows, embed, message, close_message, refreshed, reconciled,
                   geoTrace, fetched>>

\* Somebody deletes the panel message in the channel.
ExternalDelete ==
    /\ \E m \in live :
         /\ live' = live \ {m}
         /\ content' = [k \in live \ {m} |-> content[k]]
    /\ UNCHANGED <<clock, pc, cpc, enabled, volatile, geo, store, nextId, ghosts>>

\* A loop that takes the document of a lost edit for published.
request_lost_published ==
    /\ pc \in {"chan", "fetch", "send", "edit"}
    /\ pc' = "idle"
    /\ lastOp' = "lost_" \o pc
    /\ _last_embed_json' = IF pc = "edit" THEN Some(_embed_to_stable_json(Val(embed)))
                           ELSE _last_embed_json
    /\ UNCHANGED <<clock, cpc, enabled, _panel_message_id, _last_security_poll_utc,
                   queriedAt, _last_rdp_logons, _last_rdp_disconnects,
                   _last_session_states, _pending_disconnect_since, geo, store, live,
                   content, nextId, now, rows, embed, message, close_message,
                   refreshed, reconciled, runBase, runPersists, startStale,
                   geoTrace, fetched>>

\* The request a tick waits for (fetch_channel, fetch_message, send or edit,
\* main.py:187-197, 413) ends with a connection error (OSError,
\* aiohttp.ClientError, asyncio.TimeoutError) before the platform has acted on
\* it: the exception leaves update_panel at that line with nothing assigned,
\* and the loop of @tasks.loop (main.py:369), which reconnects by default,
\* calls update_panel again.
request_lost ==
    /\ pc \in {"chan", "fetch", "send", "edit"}
    /\ pc' = "idle"
    /\ lastOp' = "lost_" \o pc
    /\ UNCHANGED <<clock, cpc, enabled, _panel_message_id, _last_embed_json,
                   _last_security_poll_utc, queriedAt, _last_rdp_logons,
                   _last_rdp_disconnects, _last_session_states,
                   _pending_disconnect_since, geo, store, live, content, nextId, now,
                   rows, embed, message, close_message, refreshed, reconciled,
                   runBase, runPersists, startStale, geoTrace, fetched>>

\* ---------------------------------------------------------- environment
sActive == SessionInfo("Active", IdleInfo("3", Some(3)), Some("1/18/2026 3:05 PM"))
sIdle == SessionInfo("Active", IdleInfo("15", Some(15)), Some("1/18/2026 3:05 PM"))
sDisc == SessionInfo("Disc", IdleInfo("1:05", Some(65)), Some("1/18/2026 12:07 AM"))

GeoFound == GeoBody(TRUE, "", "City, Region, Country", "OrgName")
GeoResps == {GeoFound, GeoStatus(500), GeoBody(TRUE, "", "", "")}

\* The logon events (4624, type 10) and logoff events a query may return at clock t.
LogonEvents(t) == {Event("Alice", "10", "1.2.3.4", Some(0))}
DisconnectEvents(t) ==
    {Event(u, "", "", Some(d)) : u \in {"alice", "bob"}, d \in {x \in Times : x <= t}}

\* The reconciliation's environment: any session table, one logoff event or none
\* per query of the security log, no logon event in it, no read of the log that
\* takes measurable time.
ReconEnv ==
    [snaps |-> [Users -> {None, Some(sActive), Some(sDisc)}],
     logons |-> [t \in Times |-> {NoOutput}],
     disconnects |-> [t \in Times |->
                        {NoOutput} \cup {Output(<<e>>) : e \in DisconnectEvents(t)}],
     resps |-> GeoResps,
     skews |-> {0}]

\* The row builder's environment: each user has a session or none; the security
\* log holds alice's logon or cannot be read; the geo provider answers in any of
\* its ways.
RowsEnv ==
    [snaps |-> [Users -> {None, Some(sIdle)}],
     logons |-> [t \in Times |-> {NoOutput} \cup {Output(<<e>>) : e \in LogonEvents(t)}],
     disconnects |-> [t \in Times |-> {NoOutput}],
     resps |-> GeoResps,
     skews |-> {0}]

\* The publisher's environment: the session table shows alice or nobody and the
\* security log cannot be read, so a tick renders one of three documents.
PanelEnv ==
    [snaps |-> {[u \in Users |-> IF u = "alice" THEN s ELSE None] :
                  s \in {None, Some(sActive)}},
     logons |-> [t \in Times |-> {NoOutput}],
     disconnects |-> [t \in Times |-> {NoOutput}],
     resps |-> GeoResps,
     skews |-> {0}]

AllOutcomes == {"ok", "not_found", "forbidden", "http_error", "not_messageable"}

\* The reconciliation: every request to the platform succeeds; GEOLOOKUP_ENABLED=0.
Init == InitWith({FALSE}, {None})

Next ==
    \/ on_ready
    \/ update_panel(ReconEnv)
    \/ tick_fetch_channel({"ok"})
    \/ tick_fetch_message({"ok"})
    \/ platform_send({"ok"})
    \/ tick_sent
    \/ tick_edit({"ok"})
    \/ Advance

Spec == Init /\ [][Next]_vars

\* The row builder: every request to the platform succeeds; GEOLOOKUP_ENABLED=1.
InitRows == InitWith({TRUE}, {None})

NextRows ==
    \/ on_ready
    \/ update_panel(RowsEnv)
    \/ tick_fetch_channel({"ok"})
    \/ tick_fetch_message({"ok"})
    \/ platform_send({"ok"})
    \/ tick_sent
    \/ tick_edit({"ok"})
    \/ Advance

SpecRows == InitRows /\ [][NextRows]_vars

\* The publisher: requests fail, the message is deleted, the process is closed,
\* killed and started again; GEOLOOKUP_ENABLED=0 and the clock stands still.
InitPanel == InitWith({FALSE}, {None, Some(0)})

NextPanel ==
    \/ on_ready
    \/ update_panel(PanelEnv)
    \/ tick_fetch_channel(AllOutcomes)
    \/ tick_fetch_message(AllOutcomes)
    \/ platform_send(AllOutcomes)
    \/ tick_sent
    \/ tick_edit(AllOutcomes)
    \/ close
    \/ close_fetch_channel(AllOutcomes)
    \/ close_fetch_message(AllOutcomes)
    \/ close_delete(AllOutcomes)
    \/ close_super
    \/ Crash
    \/ ExternalDelete

SpecPanel == InitPanel /\ [][NextPanel]_vars

\* Shutdown next to a tick: every request of close succeeds, a request of the
\* tick succeeds or finds the message gone, nobody else deletes the message and
\* the process is not killed; GEOLOOKUP_ENABLED=0.
InitClose == InitWith({FALSE}, {None})

NextClose ==
    \/ on_ready
    \/ update_panel(PanelEnv)
    \/ tick_fetch_channel({"ok"})
    \/ tick_fetch_message({"ok", "not_found"})
    \/ platform_send({"ok"})
    \/ tick_sent
    \/ tick_edit({"ok", "not_found"})
    \/ close
    \/ close_fetch_channel({"ok"})
    \/ close_fetch_message({"ok"})
    \/ close_delete({"ok"})
    \/ close_super

SpecClose == InitClose /\ [][NextClose]_vars

\* --------------------------------------------------- the degraded sources
\* The sources of a tick when they fail: get_quser_sessions returns {} when quser
\* is missing or prints nothing (windows_sessions.py:51-62), so no user has a
\* session; get_latest_rdp_logons returns its defaults when wevtutil prints
\* nothing or XML that does not parse (wevtutil_security.py:66-75); the geo
\* provider raises or answers 500.  Each source may also answer well.
DegradeEnv ==
    [snaps |-> {[u \in Users |-> IF u = "alice" THEN s ELSE None] :
                  s \in {None, Some(sActive)}},
     logons |-> [t \in Times |-> {NoOutput} \cup {Output(<<e>>) : e \in LogonEvents(t)}],
     disconnects |-> [t \in Times |-> {NoOutput}],
     resps |-> {GeoFound, GeoStatus(500), GeoException},
     skews |-> {0}]

InitDegrade == InitWith({TRUE}, {None})

NextDegrade ==
    \/ on_ready
    \/ update_panel(DegradeEnv)
    \/ update_panel_tool_missing(DegradeEnv)
    \/ tick_fetch_channel({"ok"})
    \/ tick_fetch_message({"ok"})
    \/ platform_send({"ok"})
    \/ tick_sent
    \/ tick_edit({"ok"})
    \/ Advance

SpecDegrade == InitDegrade /\ [][NextDegrade]_vars

\* ------------------------------------------------------ the geo cache alone
\* The times at which get_geo_string is called: the start, the last second of
\* the failure TTL and the one after it, and the last second of the success TTL.
GeoTimes == {0, failure_ttl, failure_ttl + 1, ttl}
GeoIps == {"", "1.2.3.4", "5.6.7.8"}
GeoError == GeoBody(FALSE, "", "", "")
GeoEmpty == GeoBody(TRUE, "", "", "")
GeoProvider == {GeoFound, GeoException, GeoStatus(500), GeoError, GeoEmpty}

Put(f, k, v) == [i \in DOMAIN f \cup {k} |-> IF i = k THEN v ELSE f[i]]

\* One call of get_geo_string (geo.py:52-89), as _build_rows makes it
\* (main.py:269), with datetime.now() = clock.
GeoCall(ips, provider) ==
    /\ \E ip \in ips, resp \in provider :
         LET r == get_geo_string(geo, enabled, ip, clock, resp)
             summary == IF r.looked THEN _lookup_ipwho_is(resp)[1] ELSE None
             reason == IF r.looked THEN _lookup_ipwho_is(resp)[2] ELSE None
         IN  /\ geo' = r.g
             /\ geoTrace' =
                  [call |-> [ip |-> ip, at |-> clock, looked |-> r.looked,
                             summary |-> summary, reason |-> reason,
                             printed |-> r.printed, ret |-> r.ret],
                   missAt |-> IF r.looked /\ IsNone(r.ret)
                              THEN Put(geoTrace.missAt, ip, clock)
                              ELSE geoTrace.missAt,
                   printedAt |-> IF r.printed
                                 THEN Put(geoTrace.printedAt, Val(reason), clock)
                                 ELSE geoTrace.printedAt]
    /\ lastOp' = "geo"
    /\ UNCHANGED <<clock, pc, cpc, enabled, volatile, store, live, content, nextId,
                   runBase, runPersists, startStale, fetched>>

\* Time passes between two calls.
GeoAdvance(times) ==
    /\ \E t \in times :
         /\ t > clock
         /\ \A x \in times : x > clock => t <= x
         /\ clock' = t
    /\ UNCHANGED <<pc, cpc, volatile, durable, geo, ghosts>>

\* The process is started again with GEOLOOKUP_ENABLED set or not: GeoCache.__init__
\* reads the cache file back and forgets the last error (geo.py:28-34).
GeoConstruct ==
    /\ \E e \in {TRUE, FALSE} : enabled' = e
    /\ geo' = [geo EXCEPT !.msg = None, !.utc = None]
    /\ lastOp' = "construct"
    /\ UNCHANGED <<clock, pc, cpc, volatile, store, live, content, nextId, runBase,
                   runPersists, startStale, geoTrace, fetched>>

\* The cache is enabled and empty; the clock stands at the first of the times and
\* the provider has yet to answer.
InitGeo ==
    /\ InitWith({TRUE}, {None})
    /\ \A t \in GeoTimes : clock <= t
    /\ \A ip \in GeoIps : ip \notin DOMAIN geo.cache
    /\ \A resp \in GeoProvider : resp.kind \in {"exception", "http"}

NextGeo ==
    \/ GeoCall(GeoIps, GeoProvider)
    \/ GeoAdvance(GeoTimes)
    \/ GeoConstruct

SpecGeo == InitGeo /\ [][NextGeo]_vars

\* The log of failures: three addresses, a provider that fails in two ways, and
\* calls within and just after the log-suppression interval.
LogTimes == {0, _error_log_interval, _error_log_interval + 1}
LogIps == {"1.2.3.4", "5.6.7.8", "9.9.9.9"}
LogProvider == {GeoException, GeoStatus(500)}

InitGeoLog == InitWith({TRUE}, {None})

NextGeoLog ==
    \/ GeoCall(LogIps, LogProvider)
    \/ GeoAdvance(LogTimes)

SpecGeoLog == InitGeoLog /\ [][NextGeoLog]_vars

\* --------------------------------------------------- the security cadence
\* The cadence's environment: the session table shows alice or nobody, the
\* security log holds alice's logon or prints nothing, and get_quser_sessions
\* returns at once or after one security poll interval, so that the clock which
\* _should_refresh_security reads is later than the tick's now.
CadenceEnv ==
    [snaps |-> {[u \in Users |-> IF u = "alice" THEN s ELSE None] :
                  s \in {None, Some(sActive)}},
     logons |-> [t \in Times |-> {NoOutput} \cup {Output(<<e>>) : e \in LogonEvents(t)}],
     disconnects |-> [t \in Times |-> {NoOutput}],
     resps |-> GeoResps,
     skews |-> {0, ClockStep}]

InitCadence == InitWith({FALSE}, {None})

NextCadence ==
    \/ on_ready
    \/ update_panel(CadenceEnv)
    \/ tick_fetch_channel({"ok"})
    \/ tick_fetch_message({"ok"})
    \/ platform_send({"ok"})
    \/ tick_sent
    \/ tick_edit({"ok"})
    \/ Advance

SpecCadence == InitCadence /\ [][NextCadence]_vars

\* ------------------------------------------------------- unreadable logs
\* At each query the security log gives alice's logon or nothing that parses,
\* and alice's logoff at 0 or nothing that parses; alice has a session or none.
RefreshEnv ==
    [snaps |-> {[u \in Users |-> IF u = "alice" THEN s ELSE None] : s \in {None, Some(sActive)}},
     logons |-> [t \in Times |-> {NoOutput} \cup {Output(<<e>>) : e \in LogonEvents(t)}],
     disconnects |-> [t \in Times |-> {NoOutput, Output(<<Event("alice", "", "", Some(0))>>)}],
     resps |-> GeoResps,
     skews |-> {0}]

InitRefresh == InitWith({FALSE}, {None})

NextRefresh ==
    \/ on_ready
    \/ update_panel(RefreshEnv)
    \/ tick_fetch_channel({"ok"})
    \/ tick_fetch_message({"ok"})
    \/ platform_send({"ok"})
    \/ tick_sent
    \/ tick_edit({"ok"})
    \/ Advance

SpecRefresh == InitRefresh /\ [][NextRefresh]_vars

\* ------------------------------------------------------- failed requests
\* The publisher with requests that fail, an answer of the platform (the loop
\* ends) or a lost connection (the loop calls update_panel again); the message
\* may be deleted by someone else and the process killed and started again;
\* GEOLOOKUP_ENABLED=0 and the clock stands still.
InitRetry == InitWith({FALSE}, {None})

NextRetry ==
    \/ on_ready
    \/ update_panel(PanelEnv)
    \/ tick_fetch_channel(AllOutcomes)
    \/ tick_fetch_message(AllOutcomes)
    \/ platform_send(AllOutcomes)
    \/ tick_sent
    \/ tick_edit(AllOutcomes)
    \/ request_lost
    \/ Crash
    \/ ExternalDelete

SpecRetry == InitRetry /\ [][NextRetry]_vars

\* ------------------------------------------------------- engagement alone
\* Sessions of alice around the idle threshold: the state as quser may spell it,
\* and an idle column that is "." (0 minutes), at the threshold, one minute
\* over it, or unreadable (_parse_idle_to_minutes gives None).
EngagedSessions ==
    {SessionInfo(st, idle, Some("1/18/2026 3:05 PM")) :
        st \in {"Active", "ACTIVE", "Disc"},
        idle \in {IdleInfo(".", Some(0)),
                  IdleInfo("10", Some(idle_threshold_minutes)),
                  IdleInfo("11", Some(idle_threshold_minutes + 1)),
                  IdleInfo("24692+", None)}}

EngagedEnv ==
    [snaps |-> {[u \in Users |-> IF u = "alice" THEN s ELSE None] :
                   s \in {None} \cup {Some(i) : i \in EngagedSessions}},
     logons |-> [t \in Times |-> {NoOutput}],
     disconnects |-> [t \in Times |-> {NoOutput}],
     resps |-> GeoResps,
     skews |-> {0}]

InitEngaged == InitWith({FALSE}, {None})

NextEngaged ==
    \/ on_ready
    \/ update_panel(EngagedEnv)
    \/ tick_fetch_channel({"ok"})
    \/ tick_fetch_message({"ok"})
    \/ platform_send({"ok"})
    \/ tick_sent
    \/ tick_edit({"ok"})
    \/ Advance

SpecEngaged == InitEngaged /\ [][NextEngaged]_vars

\* ------------------------------------------------ the security log alone
\* The longest output read: MaxEvents events.
MaxEvents == 3

\* Events 4624 as the tool may print them: logons of alice from two addresses
\* with no readable SystemTime or one of two times, a logon of bob, and events
\* the loop passes over (another logon type, no address, a user not monitored).
LogonPool ==
    {Event("Alice", "10", a, t) : a \in {"1.2.3.4", "5.6.7.8"},
                                   t \in {None, Some(0), Some(ClockStep)}}
      \cup {Event("bob", "7", "5.6.7.8", Some(0)),
            Event("Alice", "3", "5.6.7.8", Some(2 * ClockStep)),
            Event("Alice", "10", "-", Some(2 * ClockStep)),
            Event("carol", "10", "5.6.7.8", Some(2 * ClockStep))}

\* One call of get_latest_rdp_logons (wevtutil_security.py:40-104), as line 390
\* of update_panel makes it.  The outputs are enumerated by extension: the tool
\* prints nothing, no event, or one event more than the call before read.
FetchLogons ==
    /\ \E out \in {NoOutput, Output(<<>>)}
                    \cup {Output(Append(fetched.events, e)) :
                            e \in IF Len(fetched.events) < MaxEvents
                                  THEN LogonPool ELSE {}} :
         /\ fetched' = out
         /\ _last_rdp_logons' = get_latest_rdp_logons(monitor_users, out)
    /\ lastOp' = "fetch"
    /\ UNCHANGED <<clock, pc, cpc, enabled, _panel_message_id, _last_embed_json,
                   _last_security_poll_utc, queriedAt, _last_rdp_disconnects,
                   _last_session_states, _pending_disconnect_since, geo, store, live,
                   content, nextId, now, rows, embed, message, close_message,
                   refreshed, reconciled, runBase, runPersists, startStale, geoTrace>>

InitLogons == InitWith({FALSE}, {None})

NextLogons == FetchLogons

SpecLogons == InitLogons /\ [][NextLogons]_vars

\* ------------------------------------------------------- the renderer alone
\* What lines 406-407 of update_panel may be given for alice, bob having no
\* session and no event: a session or none, a logon record from one of two
\* addresses or none, a disconnect time or none, and a flag, which only a user
\* who is not active can have.
RenderInputs ==
    {[session |-> s, logon |-> l, disconnect |-> d, pending |-> p] :
        s \in {None, Some(sActive), Some(sIdle), Some(sDisc)},
        l \in {NoRecord} \cup {[ip |-> Some(a), time |-> Some(0)] : a \in {"1.2.3.4", "5.6.7.8"}},
        d \in {NoRecord, [ip |-> None, time |-> Some(0)]},
        p \in {None, Some(0)}}

\* rows = self._build_rows(...); embed = self._build_embed(rows=rows,
\* last_checked_utc=now) (main.py:406-407), on one of the inputs at one time.
Render ==
    /\ \E in \in RenderInputs, t \in Times :
         /\ IF IsNone(in.pending) \/ IsNone(in.session) THEN TRUE
            ELSE Lower(Val(in.session).state) /= "active"
         /\ LET for(x, other) == [u \in Users |-> IF u = "alice" THEN x ELSE other]
                built == _build_rows(for(in.session, None), for(in.logon, NoRecord),
                                     for(in.disconnect, NoRecord), for(in.pending, None),
                                     geo, enabled, t, [i \in 1..Len(monitor_users) |-> GeoException])
            IN  /\ rows' = built.rows
                /\ now' = t
                /\ embed' = Some(_build_embed(built.rows, t))
    /\ lastOp' = "render"
    /\ UNCHANGED <<clock, pc, cpc, enabled, _panel_message_id, _last_embed_json,
                   _last_security_poll_utc, queriedAt, _last_rdp_logons, _last_rdp_disconnects,
                   _last_session_states, _pending_disconnect_since, geo, store, live,
                   content, nextId, message, close_message, refreshed, reconciled,
                   runBase, runPersists, startStale,
                   geoTrace, fetched>>

InitRender == InitWith({FALSE}, {None})

NextRender == Render

SpecRender == InitRender /\ [][NextRender]_vars

\* ----------------------------------------------------------------- claims
\* The positions of update_panel between its start and its end.
InTick == pc \in {"chan", "fetch", "send", "sent", "edit"}
\* The step in which update_panel returns without an exception.
TickCompletes == pc \in {"fetch", "sent", "edit"} /\ pc' = "idle"
\* The step that runs update_panel up to its first await.
TickStarts == pc = "idle" /\ pc' = "chan"

\* C1: when a tick completes without error, the live panel message shows the
\* document rendered in that tick, the timestamp aside; also in a tick that
\* found the published message deleted and created a new one.
C1_LiveShowsRendered ==
    [][TickCompletes =>
         /\ ~IsNone(message')
         /\ Val(message') \in live'
         /\ content'[Val(message')] = _embed_to_stable_json(Val(embed'))]_vars

\* C2: update_panel issues message.edit only if the fingerprint of the document
\* rendered in the tick differs from _last_embed_json, and the content of a
\* message changes only through such an edit; ticks whose fingerprint equals the
\* published one issue no edit.
C2_EditOnlyOnChange ==
    [][/\ (pc /= "edit" /\ pc' = "edit")
            => Some(_embed_to_stable_json(Val(embed'))) /= _last_embed_json'
       /\ \A m \in live \cap live' :
            content'[m] /= content[m]
                => /\ pc = "edit"
                   /\ Some(content'[m]) /= _last_embed_json
                   /\ Some(content'[m]) = _last_embed_json']_vars

\* A tick on an unchanged fingerprint has ended with no edit.
C2_Witness ==
    /\ pc = "idle"
    /\ lastOp = "skipped"
    /\ ~IsNone(message) /\ Val(message) \in live
    /\ _last_embed_json = Some(_embed_to_stable_json(Val(embed)))
    /\ content[Val(message)] = _embed_to_stable_json(Val(embed))

\* C3: for every monitored user the pending-disconnect flag is set only if the
\* state last stored for the user is not "active", and no row whose state is
\* active carries the flag or its timestamp.
C3_PendingOnlyIfNotActive ==
    /\ \A u \in Users :
         ~IsNone(_pending_disconnect_since[u]) => _last_session_states[u] /= "active"
    /\ \A i \in 1..Len(rows) :
         Lower(rows[i].state) = "active"
             => ~rows[i].pending_disconnect /\ IsNone(rows[i].pending_disconnect_since)

\* A tick has ended with the flag set for a disconnected user, whose row carries
\* it, next to a row of an active user.
C3_Witness ==
    /\ pc = "idle" /\ lastOp \in {"edited", "skipped"}
    /\ \E i, j \in 1..Len(rows) :
         /\ _last_session_states[rows[i].username] = "disc"
         /\ rows[i].pending_disconnect
         /\ rows[i].pending_disconnect_since = _pending_disconnect_since[rows[i].username]
         /\ _last_session_states[rows[j].username] = "active"

\* Whether the held disconnect snapshot has no time for u at or after the flag
\* less the tolerance.
NoConfirmingEventHeld(u) ==
    \/ IsNone(_last_rdp_disconnects[u].time)
    \/ Val(_last_rdp_disconnects[u].time)
         < Val(_pending_disconnect_since[u]) - 2 * Max(poll_seconds, security_poll_seconds)

\* C4 as stated: for every user with the flag set, the held disconnect snapshot,
\* fresh or cached, has no time for the user at or after the flag less the
\* tolerance.
C4_NoConfirmingEventHeld ==
    \A u \in Users : ~IsNone(_pending_disconnect_since[u]) => NoConfirmingEventHeld(u)

\* C4: at the end of every tick that fetched a fresh security snapshot, for every
\* user with the flag set, that snapshot has no disconnect time for the user at
\* or after the flag less the tolerance.
C4_NoConfirmingEventAfterRefresh ==
    refreshed =>
        \A u \in Users : ~IsNone(_pending_disconnect_since[u]) => NoConfirmingEventHeld(u)

\* A refreshing tick has left the flag set next to a disconnect time that is too
\* old to confirm it.
C4_Witness ==
    /\ refreshed /\ InTick
    /\ \E u \in Users :
         /\ ~IsNone(_pending_disconnect_since[u])
         /\ ~IsNone(_last_rdp_disconnects[u].time)
         /\ reconciled = {}

\* C5: in the tick T in which a user goes from active to a non-active state while
\* the snapshot held in that tick has no disconnect time >= T - tolerance, the
\* flag is set to T and the user's row shows the awaiting marker; in a later
\* tick that refreshes the security snapshot and gets a disconnect time >= the
\* flag - tolerance, the flag is cleared and the row shows the last-connected
\* time of that event; and a non-active row shows the awaiting marker exactly
\* when its flag is set and its disconnect time is absent or earlier than the
\* flag - tolerance.
C5_PendingLifecycle ==
    [][TickStarts =>
         \A i \in 1..Len(monitor_users) :
           LET u == monitor_users[i]
               T == now'
               tolerance == 2 * Max(poll_seconds, security_poll_seconds)
               held == _last_rdp_disconnects'[u].time
               flag == rows'[i].pending_disconnect_since
               line == Val(embed').fields[i].value[2]
           IN  /\ rows'[i].username = u
               /\ (/\ _last_session_states[u] = "active"
                   /\ _last_session_states'[u] /= "active"
                   /\ (IsNone(held) \/ Val(held) < T - tolerance))
                    => /\ _pending_disconnect_since'[u] = Some(T)
                       /\ flag = Some(T)
                       /\ line = AwaitingLine
               /\ (/\ ~IsNone(_pending_disconnect_since[u])
                   /\ _last_session_states'[u] /= "active"
                   /\ refreshed'
                   /\ ~IsNone(held)
                   /\ Val(held) >= Val(_pending_disconnect_since[u]) - tolerance)
                    => /\ IsNone(_pending_disconnect_since'[u])
                       /\ IsNone(flag)
                       /\ line = "Last Connected: '"
                                   \o _format_event_time_local(Val(held)) \o " ("
                                   \o _format_duration_since(Val(held), T) \o ")'"
               /\ Lower(rows'[i].state) /= "active"
                    => (line = AwaitingLine
                          <=> /\ ~IsNone(flag)
                              /\ (IsNone(held) \/ Val(held) < Val(flag) - tolerance))]_vars

\* A refresh has confirmed a flag that an earlier tick had set: the event is too
\* old to confirm a flag of this tick, and the row shows its time.
C5_Witness ==
    /\ pc = "chan" /\ refreshed
    /\ \E i \in 1..Len(rows) :
         LET u == rows[i].username
             d == _last_rdp_disconnects[u].time
         IN  /\ u \in reconciled
             /\ _last_session_states[u] = "disc"
             /\ IsNone(_pending_disconnect_since[u])
             /\ Val(d) < now - _pending_disconnect_tolerance
             /\ Val(embed).fields[i].value[2]
                  = "Last Connected: '18/01/2026 00:00 (1m ago)'"

\* C6: every tick builds exactly one row per configured username, in the
\* configured order, whoever is in the session table, whether the security
\* snapshot is fresh, cached or empty, and whatever the geo lookups answer.
C6_OneRowPerUser ==
    InTick =>
        /\ Len(rows) = Len(monitor_users)
        /\ \A i \in 1..Len(monitor_users) : rows[i].username = monitor_users[i]
        /\ Len(Val(embed).fields) = Len(monitor_users)

\* A tick on a cached snapshot has built the row of a user with a session and
\* a geo answer, followed by the row of a user without a session.
C6_Witness ==
    /\ pc = "chan" /\ ~refreshed
    /\ Len(rows) = 2
    /\ rows[1].username = "alice" /\ rows[1].state = "Active"
    /\ Truthy(rows[1].last_rdp_geo)
    /\ rows[2].username = "bob" /\ rows[2].state = "Missing"

\* C7: through external deletions, restarts and crashes at any point, at most one
\* panel message of the monitor is live at any time, and when a tick completes
\* exactly one is live.
C7_OneLiveMessage ==
    /\ [](Cardinality(live) <= 1)
    /\ [][TickCompletes => Cardinality(live') = 1]_vars

\* C8: in a process that started with a stored id whose message was gone and that
\* has not been asked to close: the first fetch of the message, unless it raises,
\* clears the id in memory and in the store and creates nothing; and as long as
\* the message this process created first is live, it is the only one the process
\* created, its id was persisted exactly once, and it is the id held in memory
\* and in the store.
C8_StaleStart ==
    /\ [][(startStale /\ pc = "fetch" /\ nextId = runBase /\ runPersists = 0
             /\ pc' \notin {"fetch", "failed", "down"})
            => /\ pc' = "send"
               /\ IsNone(store') /\ IsNone(_panel_message_id')
               /\ live' = live /\ nextId' = nextId /\ runPersists' = 0]_vars
    /\ [](startStale /\ pc /= "down" /\ cpc = "none" /\ runBase \in live
            => /\ nextId = runBase + 1
               /\ runPersists = (IF pc = "sent" THEN 0 ELSE 1)
               /\ pc /= "sent" => /\ store = Some(runBase)
                                  /\ _panel_message_id = Some(runBase))

\* After a stale start and the creation of one message, a later tick has fetched
\* that message and created nothing.
C8_Witness ==
    /\ startStale /\ cpc = "none" /\ pc = "idle"
    /\ lastOp = "skipped"
    /\ runBase \in live
    /\ message = Some(runBase)
    /\ store = Some(runBase)
    /\ runPersists = 1
    /\ nextId = runBase + 1

\* C9 as stated: while a process runs, the stored id is absent or the id of the
\* last message that this process created.
C9_StoreIsOwnLastCreated ==
    pc /= "down" =>
        \/ IsNone(store)
        \/ (Val(store) >= runBase /\ Val(store) = nextId - 1)

\* C9: in every reachable state the stored id is absent or the id of the last
\* message the monitor created, in this process or in an earlier one.
C9_StoreIsLastCreated == IsNone(store) \/ Val(store) = nextId - 1

\* A process runs on the id an earlier process stored, and the message is live.
C9_Witness ==
    /\ pc = "idle" /\ lastOp = "skipped"
    /\ ~IsNone(store) /\ Val(store) < runBase
    /\ Val(store) \in live
    /\ _panel_message_id = store

CloseCompletes == cpc \in {"super", "raised"} /\ pc' = "down"

\* C11: when close() is requested and its requests succeed, then once it has
\* completed no panel message that this process created is live and the stored
\* id is absent, whatever await the tick is suspended at meanwhile.
C11_ShutdownRemovesPanel ==
    [][CloseCompletes =>
         /\ \A m \in live' : m < runBase
         /\ IsNone(store')]_vars

\* C12: the same rows rendered at any two last-checked times have the same
\* fingerprint.
C12_FingerprintIgnoresTime ==
    lastOp = "render" =>
        \A t1, t2 \in Times :
            _embed_to_stable_json(_build_embed(rows, t1))
                = _embed_to_stable_json(_build_embed(rows, t2))

\* Whether two row sets differ in some user's state, idle value or last RDP IP.
RowsDiffer(r1, r2) ==
    \E i \in 1..Len(r1) :
        \/ r1[i].state /= r2[i].state
        \/ r1[i].idle /= r2[i].idle
        \/ r1[i].last_rdp_ip /= r2[i].last_rdp_ip

\* C13: two row sets rendered at the same time that differ in some user's
\* state, idle value or last RDP IP have different fingerprints.
C13_FingerprintTellsRowsApart ==
    [][(lastOp = "render" /\ lastOp' = "render" /\ now' = now /\ RowsDiffer(rows, rows'))
         => _embed_to_stable_json(Val(embed')) /= _embed_to_stable_json(Val(embed))]_vars

\* C14: a tick whose sources fail (session tool missing, security-log tool missing
\* or printing what cannot be parsed, geo request failing) still builds its rows
\* and reaches the publish step: every run of update_panel from the idle loop
\* ends at the first await of _get_or_create_panel_message with one row per user.
C14_TickReachesPublish ==
    [][(pc = "idle" /\ pc' /= "idle" /\ pc' /= "down") =>
         /\ pc' = "chan"
         /\ Len(rows') = Len(monitor_users)]_vars

\* A step of the geo specifications that is one call of get_geo_string; the call
\* is geoTrace'.call.
GeoCalled == lastOp' = "geo" /\ clock' = clock
\* The entry of ip is a success entry no older than the success TTL.
FreshSuccess(ip) ==
    /\ ip \in DOMAIN geo.cache
    /\ ~IsNone(geo.cache[ip].summary)
    /\ ~IsNone(geo.cache[ip].fetched_at_utc)
    /\ clock - Val(geo.cache[ip].fetched_at_utc) <= ttl
\* The entry of ip is a failure entry no older than the failure TTL.
FreshFailure(ip) ==
    /\ ip \in DOMAIN geo.cache
    /\ IsNone(geo.cache[ip].summary)
    /\ ~IsNone(geo.cache[ip].failed_at_utc)
    /\ clock - Val(geo.cache[ip].failed_at_utc) <= failure_ttl

\* C15: a call of get_geo_string for an address with no cache entry asks the
\* provider once and, if a summary comes back, stores a success entry; a call for
\* an address whose success entry is no older than the success TTL does not ask
\* the provider, returns the stored summary and leaves the cache as it was.
C15_CacheHit ==
    [][(GeoCalled /\ enabled /\ geoTrace'.call.ip /= "") =>
         LET c == geoTrace'.call
         IN  /\ c.ip \notin DOMAIN geo.cache =>
                  /\ c.looked
                  /\ ~IsNone(c.summary) =>
                       /\ c.ip \in DOMAIN geo'.cache
                       /\ geo'.cache[c.ip] = SuccessEntry(Val(c.summary), clock)
             /\ FreshSuccess(c.ip) =>
                  /\ ~c.looked
                  /\ c.ret = geo.cache[c.ip].summary
                  /\ geo'.cache = geo.cache]_vars
\* A call at the last second of the success TTL was answered from the cache.
C15_Witness ==
    /\ lastOp = "geo"
    /\ clock = ttl
    /\ ~geoTrace.call.looked
    /\ ~IsNone(geoTrace.call.ret)
    /\ geo.cache[geoTrace.call.ip].fetched_at_utc = Some(0)

\* C16: after a lookup for an address that gave no summary, get_geo_string
\* returns None and does not ask the provider for that address again until the
\* failure TTL has elapsed since that lookup.
C16_NegativeCaching ==
    [][(GeoCalled /\ enabled) =>
         LET c == geoTrace'.call
         IN  (/\ c.ip \in DOMAIN geoTrace.missAt
              /\ clock - geoTrace.missAt[c.ip] <= failure_ttl) =>
                 (~c.looked /\ IsNone(c.ret))]_vars

\* C17: a call for an address whose failure entry is older than the failure TTL
\* asks the provider; if a summary comes back, the entry becomes a success entry
\* without failed_at_utc and failure_reason, and the summary is returned.
C17_FailureExpires ==
    [][(/\ GeoCalled
        /\ enabled
        /\ geoTrace'.call.ip \in DOMAIN geo.cache
        /\ ~IsNone(geo.cache[geoTrace'.call.ip].failed_at_utc)
        /\ clock - Val(geo.cache[geoTrace'.call.ip].failed_at_utc) > failure_ttl) =>
         LET c == geoTrace'.call
         IN  /\ c.looked
             /\ ~IsNone(c.summary) =>
                  /\ geo'.cache[c.ip].summary = c.summary
                  /\ geo'.cache[c.ip].fetched_at_utc = Some(clock)
                  /\ IsNone(geo'.cache[c.ip].failed_at_utc)
                  /\ IsNone(geo'.cache[c.ip].failure_reason)
                  /\ c.ret = c.summary]_vars
\* A failure entry was replaced by a success entry after the failure TTL.
C17_Witness ==
    /\ lastOp = "geo"
    /\ geoTrace.call.looked
    /\ ~IsNone(geoTrace.call.ret)
    /\ geoTrace.call.ip \in DOMAIN geoTrace.missAt
    /\ geoTrace.missAt[geoTrace.call.ip] = 0
    /\ clock = failure_ttl + 1

\* An entry with the success fields or the failure fields, not both.
WellFormedEntry(e) ==
    \/ /\ ~IsNone(e.summary) /\ ~IsNone(e.fetched_at_utc)
       /\ IsNone(e.failed_at_utc) /\ IsNone(e.failure_reason)
    \/ /\ IsNone(e.summary) /\ IsNone(e.fetched_at_utc)
       /\ ~IsNone(e.failed_at_utc) /\ ~IsNone(e.failure_reason)

\* C18: a call of get_geo_string changes the cache only if it asked the provider;
\* a call that is disabled, has an empty address or finds a fresh success or
\* failure entry asks nothing and leaves the whole cache unchanged; an entry that
\* a call writes has the success fields or the failure fields, never both.
C18_CacheFrame ==
    [][GeoCalled =>
         LET c == geoTrace'.call
         IN  /\ geo'.cache /= geo.cache => c.looked
             /\ (~enabled \/ c.ip = "" \/ FreshSuccess(c.ip) \/ FreshFailure(c.ip)) =>
                  (~c.looked /\ geo'.cache = geo.cache)
             /\ \A ip \in DOMAIN geo'.cache :
                  (ip \notin DOMAIN geo.cache \/ geo'.cache[ip] /= geo.cache[ip]) =>
                      (ip = c.ip /\ WellFormedEntry(geo'.cache[ip]))]_vars
\* A call was answered from a fresh failure entry while another address has a
\* success entry.
C18_Witness ==
    /\ lastOp = "geo"
    /\ ~geoTrace.call.looked
    /\ geoTrace.call.ip \in DOMAIN geo.cache
    /\ ~IsNone(geo.cache[geoTrace.call.ip].failed_at_utc)
    /\ \E ip \in DOMAIN geo.cache : ~IsNone(geo.cache[ip].summary)

\* C19: no two log lines with the same failure reason are written within the
\* log-suppression interval, whatever is logged between them.
C19_LogRateLimited ==
    [][(GeoCalled /\ geoTrace'.call.printed) =>
         LET reason == Val(geoTrace'.call.reason)
         IN  reason \in DOMAIN geoTrace.printedAt =>
                 clock - geoTrace.printedAt[reason] > _error_log_interval]_vars

\* C20: in each tick, for each monitored user: if the stored state is "active"
\* and the current state is not, the flag is set to the tick's now; if the
\* current state is "active" the flag is cleared; otherwise the transition step
\* leaves the flag as it was (the reconciliation of the same tick may still
\* clear it); the current state, "missing" for a user without session, is
\* stored.  Hence a flag is set only in a tick that found the stored state
\* "active", and a user never seen active has none.
C20_TransitionStep ==
    [][/\ TickStarts =>
            \A i \in 1..Len(monitor_users) :
              LET u == monitor_users[i]
                  prev == _last_session_states[u]
                  cur == _last_session_states'[u]
                  flag == _pending_disconnect_since'[u]
              IN  /\ cur = Lower(rows'[i].state)
                  /\ (prev = "active" /\ cur /= "active") =>
                        (flag = Some(now') \/ (u \in reconciled' /\ IsNone(flag)))
                  /\ cur = "active" => IsNone(flag)
                  /\ (prev /= "active" /\ cur /= "active") =>
                        \/ flag = _pending_disconnect_since[u]
                        \/ u \in reconciled' /\ IsNone(flag)
       /\ \A u \in Users :
            (IsNone(_pending_disconnect_since[u]) /\ ~IsNone(_pending_disconnect_since'[u]))
                => (TickStarts /\ _last_session_states[u] = "active")]_vars
\* A tick has set the flag of a user who was active in the tick before and has
\* kept the older flag of the other user.
C20_Witness ==
    /\ pc = "chan"
    /\ \E u, v \in Users :
         /\ _pending_disconnect_since[u] = Some(now)
         /\ ~IsNone(_pending_disconnect_since[v])
         /\ Val(_pending_disconnect_since[v]) < now
         /\ _last_session_states[u] /= "active"
         /\ _last_session_states[v] /= "active"

\* C21: in a tick that refreshes the security snapshot, every user whose flag is
\* set after the transition step and whose fresh disconnect time is at or after
\* the flag less 2 * max(poll interval, security poll interval) has the flag
\* cleared in that tick, and the flag of every other user is what the transition
\* step left; in a tick that reuses the held snapshot the reconciliation clears
\* no flag.
C21_Reconciliation ==
    [][TickStarts =>
         \A u \in Users :
           LET stepped == TransitionStep(_last_session_states[u],
                                         _last_session_states'[u],
                                         _pending_disconnect_since[u], now')
               fresh == _last_rdp_disconnects'[u].time
               tolerance == 2 * Max(poll_seconds, security_poll_seconds)
               confirmed == IF IsNone(stepped) \/ IsNone(fresh) THEN FALSE
                            ELSE Val(fresh) >= Val(stepped) - tolerance
           IN  /\ (refreshed' /\ confirmed) =>
                     (IsNone(_pending_disconnect_since'[u]) /\ u \in reconciled')
               /\ (refreshed' /\ ~confirmed) =>
                     (_pending_disconnect_since'[u] = stepped /\ u \notin reconciled')
               /\ ~refreshed' =>
                     (_pending_disconnect_since'[u] = stepped /\ reconciled' = {})]_vars
\* A refresh has cleared the flag of one user on an event exactly the tolerance
\* before the flag and has left the flag of the other user, whose event is
\* missing.
C21_Witness ==
    /\ pc = "chan" /\ refreshed
    /\ \E u, v \in Users :
         /\ u \in reconciled
         /\ IsNone(_pending_disconnect_since[u])
         /\ _last_rdp_disconnects[u].time = Some(now - 2 * Max(poll_seconds, security_poll_seconds))
         /\ v \notin reconciled
         /\ ~IsNone(_pending_disconnect_since[v])

\* What a run of update_panel does about the security log (main.py:387-406): it
\* queries the log if and only if no refresh has happened yet or the clock read
\* after the session query is at least the security poll interval after the now
\* of the tick that last refreshed; a tick that queries stores its own now and
\* what it got; any other tick leaves the stored snapshot alone and builds its
\* rows from it.  The session state of every user is stored in either case.
CadenceStep ==
    /\ refreshed' <=> (IF IsNone(_last_security_poll_utc) THEN TRUE
                       ELSE clock' - Val(_last_security_poll_utc) >= security_poll_seconds)
    /\ refreshed' => /\ _last_security_poll_utc' = Some(now')
                     /\ queriedAt' = Some(clock')
    /\ ~refreshed' => /\ _last_security_poll_utc' = _last_security_poll_utc
                      /\ queriedAt' = queriedAt
                      /\ _last_rdp_logons' = _last_rdp_logons
                      /\ _last_rdp_disconnects' = _last_rdp_disconnects
    /\ \A i \in 1..Len(monitor_users) :
         LET u == monitor_users[i]
         IN  /\ _last_session_states'[u] = Lower(rows'[i].state)
             /\ rows'[i].last_rdp_ip = _last_rdp_logons'[u].ip
             /\ rows'[i].last_rdp_time_utc = _last_rdp_logons'[u].time
             /\ rows'[i].last_rdp_disconnect_time_utc = _last_rdp_disconnects'[u].time

\* C22 as stated: the cadence above, and so two successive queries of the
\* security log are never less than the security poll interval apart.
C22_QueriesApart ==
    [][TickStarts =>
         /\ CadenceStep
         /\ (refreshed' /\ ~IsNone(queriedAt)) =>
                clock' - Val(queriedAt) >= security_poll_seconds]_vars

\* C22: the session source is queried in every tick; the security log is queried
\* in a tick if and only if no refresh has happened yet or the time from the now
\* of the last refreshing tick to the clock read in this tick is at least the
\* security poll interval; every other tick builds its rows from the snapshot
\* the last refresh stored.  Two successive queries are at least the interval
\* apart less the time the session query of the earlier tick took.
C22_SecurityCadence ==
    [][TickStarts =>
         /\ CadenceStep
         /\ (refreshed' /\ ~IsNone(queriedAt)) =>
                /\ clock' - Val(_last_security_poll_utc) >= security_poll_seconds
                /\ Val(_last_security_poll_utc) <= Val(queriedAt)]_vars
\* A tick within the interval has reused the snapshot of the refresh before it,
\* which has nothing for alice: her row shows no address.
C22_Witness ==
    /\ pc = "chan" /\ ~refreshed
    /\ ~IsNone(_last_security_poll_utc)
    /\ clock - Val(_last_security_poll_utc) < security_poll_seconds
    /\ _last_session_states["alice"] = "active"
    /\ IsNone(rows[1].last_rdp_ip)


\* The status indicator of _status_dot by the spec's names.
Busy == ":red_circle:"
Idle == ":yellow_circle:"
Away == ":green_circle:"

\* C23: in the rows a tick builds, a row is engaged iff the user's session state
\* is active in any casing, the idle minutes are known and they are at most the
\* idle threshold; the row of a user missing from the snapshot is not engaged;
\* and the field of the row is headed busy when active and engaged, idle when
\* active and not engaged, away for every other state.
C23_Engagement ==
    [][TickStarts =>
         /\ Len(rows') = Len(monitor_users)
         /\ \A i \in 1..Len(monitor_users) :
              LET u == monitor_users[i]
                  row == rows'[i]
                  active == _last_session_states'[u] = "active"
                  dot == IF active /\ row.engaged THEN Busy
                         ELSE IF active THEN Idle ELSE Away
              IN  /\ row.username = u
                  /\ Lower(row.state) = _last_session_states'[u]
                  /\ row.engaged <=> (/\ active
                                      /\ row.idle.minutes /= None
                                      /\ Val(row.idle.minutes) <= idle_threshold_minutes)
                  /\ _last_session_states'[u] = "missing" => ~row.engaged
                  /\ Val(embed').fields[i].name = dot \o " " \o _display_name(u)]_vars

\* alice, whose state quser spelt in capitals, sits exactly at the threshold and
\* is engaged and busy; bob has no session and is away.
C23_Witness ==
    /\ pc = "chan"
    /\ rows[1].state = "ACTIVE"
    /\ rows[1].idle.minutes = Some(idle_threshold_minutes)
    /\ rows[1].engaged
    /\ Val(embed).fields[1].name = Busy \o " " \o _display_name("alice")
    /\ rows[2].state = "Missing"
    /\ ~rows[2].engaged
    /\ Val(embed).fields[2].name = Away \o " " \o _display_name("bob")


\* The places of the fetched output whose event the loop takes for the user
\* (wevtutil_security.py:88-98).
Qualifying(u) ==
    {i \in 1..Len(fetched.events) :
        /\ Lower(fetched.events[i].user) = u
        /\ fetched.events[i].logon_type \in {"10", "7"}
        /\ fetched.events[i].ip \notin {"", "-", "::1", "127.0.0.1"}}
Timed(u) == {i \in Qualifying(u) : ~IsNone(fetched.events[i].time)}
Kept(i) == [ip |-> Some(fetched.events[i].ip), time |-> fetched.events[i].time]

\* C24: after one fetch, the entry of a user who has a qualifying event with a
\* timestamp is the event with the latest timestamp, the first one seen among
\* those of that timestamp; so no event without a timestamp has replaced a kept
\* event that has one.  A user with no qualifying event keeps the default entry.
C24_LatestKept ==
    (lastOp = "fetch" /\ fetched.parsed) =>
        \A u \in Users :
            LET e == fetched.events
                T == Timed(u)
            IN  /\ DOMAIN _last_rdp_logons = Users
                /\ Qualifying(u) = {} => _last_rdp_logons[u] = NoRecord
                /\ Qualifying(u) /= {} =>
                      \E i \in Qualifying(u) : _last_rdp_logons[u] = Kept(i)
                /\ T /= {} =>
                      \E i \in T :
                          /\ _last_rdp_logons[u] = Kept(i)
                          /\ \A j \in T : Val(e[j].time) <= Val(e[i].time)
                          /\ \A j \in T : Val(e[j].time) = Val(e[i].time) => i <= j

\* Two logons of alice of the same time from two addresses, then one without a
\* time: the first is kept.
C24_Witness ==
    /\ lastOp = "fetch"
    /\ fetched.events = << Event("Alice", "10", "1.2.3.4", Some(ClockStep)),
                           Event("Alice", "10", "5.6.7.8", Some(ClockStep)),
                           Event("Alice", "10", "5.6.7.8", None) >>
    /\ _last_rdp_logons["alice"] = [ip |-> Some("1.2.3.4"), time |-> Some(ClockStep)]


\* A request of the tick has failed: the platform refused it or it was lost.
RequestFails == InTick /\ (lastOp' = "failed" \/ lastOp' = "lost_" \o pc)
\* The fingerprint of the document the tick rendered.
Rendered == Some(_embed_to_stable_json(Val(embed)))

\* C25: a failed fetch, create or edit of a tick leaves _last_embed_json as it
\* was; _last_embed_json changes only when an edit succeeds, to the fingerprint
\* of the document that edit put into the message (and to None when the process
\* starts again); so after a failed edit the fingerprint still differs from the
\* document's, and a tick that reaches the comparison edits exactly when its
\* document differs from _last_embed_json, which is how the next tick with the
\* same document attempts the edit again.
C25_FingerprintOnlyAfterEdit ==
    [][/\ RequestFails => _last_embed_json' = _last_embed_json
       /\ (RequestFails /\ pc = "edit") =>
              (embed' = embed /\ Rendered /= _last_embed_json')
       /\ _last_embed_json' /= _last_embed_json =>
              \/ /\ pc = "edit"
                 /\ lastOp' = "edited"
                 /\ _last_embed_json' = Rendered
                 /\ content'[Val(message)] = Val(Rendered)
              \/ pc' = "down" /\ _last_embed_json' = None
       /\ (pc \in {"fetch", "sent"} /\ pc' \in {"edit", "idle"} /\ ~RequestFails) =>
              (pc' = "edit" <=> Rendered /= _last_embed_json)]_vars

\* An edit was lost after an earlier one had succeeded: the fingerprint is still
\* that of the earlier document, not of the one rendered.
C25_Witness ==
    /\ lastOp = "lost_edit"
    /\ pc = "idle"
    /\ _last_embed_json /= None
    /\ Rendered /= _last_embed_json


\* The entries a fetch returns when the tool prints nothing or XML that does not
\* parse (wevtutil_security.py:50, 66-75).
Defaults == [u \in Users |-> NoRecord]
\* The rows show what the snapshots hold.
RowsShow(shown, logons, disconnects) ==
    \A i \in 1..Len(monitor_users) :
        /\ shown[i].last_rdp_ip = logons[monitor_users[i]].ip
        /\ shown[i].last_rdp_time_utc = logons[monitor_users[i]].time
        /\ shown[i].last_rdp_disconnect_time_utc = disconnects[monitor_users[i]].time

\* C26: a tick that refreshes stores as snapshots one of the results the fetch
\* can return at that time, the default entries among them, the very result its
\* rows are built from, and moves the refresh time to the tick's now whatever
\* was returned; a tick that does not refresh leaves the snapshots and the
\* refresh time alone and builds its rows from them.  So after a refresh that
\* returned default entries the rows show no address and no event time until a
\* refresh returns events.
C26_SnapshotIsLastResult ==
    [][TickStarts =>
         /\ RowsShow(rows', _last_rdp_logons', _last_rdp_disconnects')
         /\ IF refreshed'
            THEN /\ _last_rdp_logons' \in
                       {get_latest_rdp_logons(monitor_users, o) :
                            o \in RefreshEnv.logons[clock']}
                 /\ _last_rdp_disconnects' \in
                       {get_latest_rdp_disconnects(monitor_users, o) :
                            o \in RefreshEnv.disconnects[clock']}
                 /\ _last_security_poll_utc' = Some(now')
            ELSE UNCHANGED <<_last_rdp_logons, _last_rdp_disconnects,
                             _last_security_poll_utc>>]_vars

\* The panel last published shows alice's address; the refresh of this tick,
\* later than the first, returned default entries for both logs: nothing is
\* known any more and alice's row shows no address and no event time.
C26_Witness ==
    /\ pc = "chan"
    /\ refreshed
    /\ now > 0
    /\ _last_security_poll_utc = Some(now)
    /\ _last_embed_json /= None
    /\ Val(_last_embed_json).fields[1].value[2] = "Connected: '1.2.3.4' | '0m'"
    /\ _last_rdp_logons = Defaults
    /\ _last_rdp_disconnects = Defaults
    /\ rows[1].state = "Active"
    /\ rows[1].last_rdp_ip = None
    /\ rows[1].last_rdp_time_utc = None
    /\ rows[1].last_rdp_disconnect_time_utc = None

====
